---- MODULE Spec2Model ----
(***************************************************************************)
(* Word chain bot: the per-message turn engine (Bot.on_message and         *)
(* Bot.handle_mistake), the in-memory ServerConfig and its persisted row,  *)
(* the member / used-word / cache / blacklist / whitelist tables, the      *)
(* global asyncio lock of Bot.db_connection, and the configuration         *)
(* commands that touch the same state.                                     *)
(*                                                                         *)
(* One server is modelled.  Every coroutine is a task; a task runs without *)
(* interruption between two suspension points, so each action below is the *)
(* code between two awaits at which another task can observe or change the *)
(* shared state.  Karma is a float in the code; here it is a fixed-point   *)
(* integer in units of 1/Scale.                                            *)
(***************************************************************************)
EXTENDS Integers, Sequences, FiniteSets, TLC

\* ------------------------------------------------------------------ bounds
\* Number of chat messages delivered in one behaviour.
MaxMessages == 3
\* Number of configuration commands issued in one behaviour.
MaxCommands == 1
MaxChecks == 2

\* ---------------------------------------------------------------- universe
Tasks == {"t1", "t2"}
Members == {"m1", "m2"}
None == "None"
Channels == {"c1", "c2", "c3"}
GameModes == {"NORMAL", "HARD"}
NoWord == <<>>
Roles == {"r1"}

\* Words are sequences of characters.
w_ax == <<"a", "x">>
w_xa == <<"x", "a">>
w_xx == <<"x", "x">>
w_axa == <<"a", "x", "a">>
w_xax == <<"x", "a", "x">>
w_axxa == <<"a", "x", "x", "a">>
w_a == <<"a">>
w_a1 == <<"a", "1">>
\* The messages delivered to the bot: <<author, word, channel>>.
Messages ==
    {<<"m1", w_ax, "c1">>, <<"m1", w_xa, "c1">>, <<"m2", w_xa, "c1">>, <<"m2", w_axa, "c1">>,
     <<"m1", w_xa, "c2">>, <<"m2", w_axa, "c2">>,
     <<"m1", w_xx, "c1">>, <<"m1", w_xax, "c1">>, <<"m1", w_axxa, "c1">>,
     <<"m1", w_a, "c1">>, <<"m1", w_a1, "c1">>, <<"m1", w_xa, "c3">>}
\* Words a manager puts on the server's blacklist and whitelist.
BlacklistWords == {w_xa}
WhitelistWords == {w_xx, w_ax}
Languages == {"en", "fr", "de"}
\* The ordered language lists a server can have enabled (one or two languages).
LanguageLists ==
    {<<l>> : l \in Languages}
        \cup {pair \in Languages \X Languages : pair[1] # pair[2]}
CheckWords == {w_xa, w_xx, w_a, w_a1}
ReliableRoles == {"r2"}
\* The messages of the role scenarios.
RoleMessages == {<<"m1", w_ax, "c1">>, <<"m2", w_xa, "c1">>}
BanInputs == {<<"m1", TRUE>>, <<"m1", FALSE>>}

\* --------------------------------------------------------------- constants
POSSIBLE_CHARACTERS == {"a", "b", "x"}
GLOBAL_BLACKLIST_2_LETTER_WORDS == {w_xx}
GLOBAL_BLACKLIST_N_LETTER_WORDS == {w_axxa}
GLOBAL_WHITELIST_3_LETTER_WORDS == {w_axa}
MISTAKE_PENALTY == 10
HISTORY_LENGTH == 5
REDEMPTION_THRESHOLD == 30
RELIABLE_ROLE_KARMA_THRESHOLD == 50
\* RELIABLE_ROLE_ACCURACY_THRESHOLD = .99, in hundredths.
RELIABLE_ROLE_ACCURACY_THRESHOLD == 99
API_RESPONSE_WORD_EXISTS == "WORD_EXISTS"
API_RESPONSE_WORD_DOESNT_EXIST == "WORD_DOESNT_EXIST"
API_RESPONSE_ERROR == "ERROR"
API_RESPONSES == {API_RESPONSE_WORD_EXISTS, API_RESPONSE_WORD_DOESNT_EXIST, API_RESPONSE_ERROR}

\* Fixed-point unit of karma values.
Scale == 100 * 100

\* Token width of a game mode (GameMode.value).
TokenWidth(game_mode) == IF game_mode = "HARD" THEN 2 ELSE 1

Max(a, b) == IF a >= b THEN a ELSE b

\* A floor that is missing: the second argument is stored as it is.
func_max_unfloored(a, b) == b

\* SQL func.max(a, b), the floor of the karma column.
func_max(a, b) == IF a >= b THEN a ELSE b
Last(s) == s[Len(s)]

\* ------------------------------------------------------------------ karma
\* score_adaption(FIRST_CHAR_SCORE[c]) = FIRST_CHAR_SCORE[c] ** 0.5 + 0.025, in 1/Scale.
AdaptedScore(c) ==
    CASE c = "a" -> 13612
      [] c = "b" -> 11623
      [] c = "x" -> 2137

\* calculate_decay(2 * k / len) = 2 * e ** (-0.33 * 2 * k / len) - 1, in 1/Scale,
\* tabulated for every history length len <= HISTORY_LENGTH and every k the sum
\* of (len - index) over a subset of the indices can take; entry k + 1 of row len.
DecayTable ==
    << <<10000, 337>>,
       <<10000, 4378, 337, -2568>>,
       <<10000, 6050, 2881, 337, -1704, -3343, -4657>>,
       <<10000, 6958, 4378, 2191, 337, -1235, -2568, -3699, -4657, -5470, -6159>>,
       <<10000, 7527, 5359, 3460, 1796, 337, -941, -2061, -3043, -3903, -4657, -5318, -5897, -6404, -6849, -7239>> >>

\* A decay factor that never decays.
calculate_decay_flat(k, len) == Scale

calculate_decay(k, len) == IF len = 0 THEN Scale ELSE DecayTable[len][k + 1]

calculate_base_karma(word) ==
    LET first_char_score == AdaptedScore(Head(word))
        last_char_score == AdaptedScore(Last(word))
        first_char_karma == (first_char_score - Scale) * (0 - 1)
        last_char_karma == last_char_score - Scale
    IN  (IF first_char_karma > 0 THEN first_char_karma ELSE 0) + (last_char_karma * 7) \div 10

RECURSIVE WeightSum(_, _, _)
\* Sum of (len - index) over the history entries from position i on (index = i - 1)
\* whose last letter is end_letter; n of calculate_total_karma is 2 / len times it.
WeightSum(last_words, end_letter, i) ==
    IF i > Len(last_words) THEN 0
    ELSE (IF Last(last_words[i]) = end_letter THEN Len(last_words) - (i - 1) ELSE 0)
         + WeightSum(last_words, end_letter, i + 1)

\* A total that applies the decay factor to losses as well.
calculate_total_karma_decay_always(word, last_words) ==
    (calculate_decay(WeightSum(last_words, Last(word), 1), Len(last_words))
        * calculate_base_karma(word)) \div Scale

calculate_total_karma(word, last_words) ==
    LET end_letter == Last(word)
        k == WeightSum(last_words, end_letter, 1)
        decay == calculate_decay(k, Len(last_words))
        base_karma == calculate_base_karma(word)
    IN  IF base_karma > 0 THEN (decay * base_karma) \div Scale ELSE base_karma

\* deque(maxlen = HISTORY_LENGTH).append
HistoryAppend(last_words, word) ==
    LET s == Append(last_words, word)
    IN  IF Len(s) > HISTORY_LENGTH THEN Tail(s) ELSE s

\* ------------------------------------------------------------------ state
VARIABLES
    lock,                 \* holder of Bot.__LOCK, or None
    pc,                   \* position of every task
    msg,                  \* the message (and locals) a task is handling
    server_configs,       \* the in-memory ServerConfig of the server
    db_server_config,     \* the committed server_config row
    db_member,            \* member table: member id -> row, or NoRow
    used_words,           \* used_words rows of the server
    word_cache,           \* word_cache rows
    blacklist,            \* blacklist rows of the server
    whitelist,            \* whitelist rows of the server
    server_failed_roles,  \* the cached failed role object, or None
    failed_role_members,  \* members holding the failed role on the platform
    server_histories,     \* member id -> last accepted words
    SINGLE_PLAYER,        \* the SINGLE_PLAYER environment switch
    started,              \* messages delivered so far
    commands,             \* commands issued so far
    accepted,             \* game mode -> number of Accepted outcomes
    mistakes,             \* game mode -> number of Mistake outcomes
    last_outcome,         \* outcome of the message that finished last
    guild_members,        \* members currently in the guild
    server_reliable_roles,\* the cached reliable role object, or None
    reliable_role_members,\* members holding the reliable role on the platform
    banned_member         \* banned_member rows

vars == <<lock, pc, msg, server_configs, db_server_config, db_member, used_words,
          word_cache, blacklist, whitelist, server_failed_roles, failed_role_members,
          server_histories, SINGLE_PLAYER, started, commands, accepted, mistakes,
          last_outcome, guild_members, server_reliable_roles, reliable_role_members,
          banned_member>>

NoRow == [score |-> 0, correct |-> 0, wrong |-> 0, karma |-> 0, present |-> FALSE]
ZeroRow == [score |-> 0, correct |-> 0, wrong |-> 0, karma |-> 0, present |-> TRUE]

GameModeState ==
    [channel_id |-> None, current_count |-> 0, current_word |-> NoWord, high_score |-> 0,
     used_high_score_emoji |-> FALSE, last_member_id |-> None]

ServerConfig ==
    [game_state |-> [m \in GameModes |-> GameModeState],
     reliable_role_id |-> None, failed_role_id |-> None, failed_member_id |-> None,
     correct_inputs_by_failed_member |-> 0, languages |-> <<"en">>]

NoMsg == [author |-> None, word |-> NoWord, game_mode |-> None, future |-> FALSE,
          arg |-> None]

NoOutcome == [kind |-> None, reason |-> None]
Outcome(kind, reason) == [kind |-> kind, reason |-> reason]

\* The configuration a previous run persisted: both game channels are set.
InitialConfig ==
    [ServerConfig EXCEPT !.game_state["NORMAL"].channel_id = "c1",
                         !.game_state["HARD"].channel_id = "c2"]

Init ==
    /\ lock = None
    /\ pc = [t \in Tasks |-> "idle"]
    /\ msg = [t \in Tasks |-> NoMsg]
    /\ server_configs = InitialConfig
    /\ db_server_config = InitialConfig
    /\ db_member = [m \in Members |-> NoRow]
    /\ used_words = {}
    /\ word_cache = {}
    /\ blacklist = {}
    /\ whitelist = {}
    /\ server_failed_roles = None
    /\ failed_role_members = {}
    /\ server_histories = [m \in Members |-> <<>>]
    /\ SINGLE_PLAYER \in BOOLEAN
    /\ started = 0
    /\ commands = 0
    /\ accepted = [m \in GameModes |-> 0]
    /\ mistakes = [m \in GameModes |-> 0]
    /\ last_outcome = NoOutcome
    /\ guild_members = Members
    /\ server_reliable_roles = None
    /\ reliable_role_members = {}
    /\ banned_member = {}

\* ------------------------------------------------------- ServerConfig methods
\* A reset that also forgets the chain's last word and last member.
fail_chain_clearing(cfg, game_mode, member_id) ==
    [cfg EXCEPT !.game_state[game_mode].current_count = 0,
                !.game_state[game_mode].current_word = NoWord,
                !.game_state[game_mode].last_member_id = None,
                !.failed_member_id = member_id,
                !.correct_inputs_by_failed_member = 0,
                !.game_state[game_mode].used_high_score_emoji = FALSE]

fail_chain(cfg, game_mode, member_id) ==
    [cfg EXCEPT !.game_state[game_mode].current_count = 0,
                !.failed_member_id = member_id,
                !.correct_inputs_by_failed_member = 0,
                !.game_state[game_mode].used_high_score_emoji = FALSE]

\* An update that overwrites the count instead of incrementing it.
update_current_lost(cfg, game_mode, member_id, current_word) ==
    [cfg EXCEPT !.game_state[game_mode].current_count = 1,
                !.game_state[game_mode].current_word = current_word,
                !.game_state[game_mode].last_member_id = member_id,
                !.game_state[game_mode].high_score = Max(@, 1)]

\* An update that forgets who played last.
update_current_no_member(cfg, game_mode, member_id, current_word) ==
    [cfg EXCEPT !.game_state[game_mode].current_count = @ + 1,
                !.game_state[game_mode].current_word = current_word,
                !.game_state[game_mode].high_score =
                    Max(@, cfg.game_state[game_mode].current_count + 1)]

\* An update that leaves the high score behind.
update_current_no_high_score(cfg, game_mode, member_id, current_word) ==
    [cfg EXCEPT !.game_state[game_mode].current_count = @ + 1,
                !.game_state[game_mode].current_word = current_word,
                !.game_state[game_mode].last_member_id = member_id]

update_current(cfg, game_mode, member_id, current_word) ==
    LET gs == cfg.game_state[game_mode]
        count == gs.current_count + 1
    IN  [cfg EXCEPT !.game_state[game_mode].current_count = count,
                    !.game_state[game_mode].current_word = current_word,
                    !.game_state[game_mode].last_member_id = member_id,
                    !.game_state[game_mode].high_score = Max(gs.high_score, count)]

\* A reaction that never records that the high score was celebrated.
reaction_emoji_every_time(cfg, game_mode) == cfg

\* reaction_emoji returns an emoji; its effect on the config is the one-shot flag.
reaction_emoji(cfg, game_mode) ==
    LET gs == cfg.game_state[game_mode]
    IN  IF gs.current_count = gs.high_score /\ ~gs.used_high_score_emoji
        THEN [cfg EXCEPT !.game_state[game_mode].used_high_score_emoji = TRUE]
        ELSE cfg

\* ------------------------------------------------------------- Bot helpers
LockFree == lock = None

\* A connection block whose exit leaves the lock with its holder.
release_lock_never(t) == lock

\* The exit of 'async with self.__LOCK': the holder gives the lock up.
release_lock(t) == IF lock = t THEN None ELSE lock

\* The game mode whose channel the message was posted in, None if there is none.
MessageGameMode(channel) ==
    IF \E m \in GameModes : server_configs.game_state[m].channel_id = channel
    THEN CHOOSE m \in GameModes : server_configs.game_state[m].channel_id = channel
    ELSE None

\* A whitelist check that never finds the word.
is_word_whitelisted_never(word) == FALSE

is_word_whitelisted(word) == word \in whitelist

\* A check that consults the server's blacklist only.
is_word_blacklisted_server_only(word, with_server) == with_server /\ word \in blacklist

\* with_server is FALSE when server_id / connection are not passed (global lists only).
is_word_blacklisted(word, with_server) ==
    IF word \in GLOBAL_BLACKLIST_2_LETTER_WORDS \/ word \in GLOBAL_BLACKLIST_N_LETTER_WORDS
    THEN TRUE
    ELSE IF Len(word) = 3 /\ word \notin GLOBAL_WHITELIST_3_LETTER_WORDS
    THEN TRUE
    ELSE IF ~with_server
    THEN FALSE
    ELSE word \in blacklist

\* A word_cache row is <<word, language>>; the check ignores the language.
is_word_in_cache(word) == \E row \in word_cache : row[1] = word

\* INSERT OR IGNORE into word_cache, whose primary key is the word alone.
insert_or_ignore(cache, word, language) ==
    IF \E row \in cache : row[1] = word THEN cache ELSE cache \cup {<<word, language>>}

\* The insert names no language: the row gets the column's default, 'en'.
add_to_cache(cache, word) ==
    IF ~is_word_blacklisted(word, FALSE) THEN insert_or_ignore(cache, word, "en") ELSE cache

\* The cache check of check_word: a row of the word in one of the given languages.
is_word_in_cache_languages(word, languages) ==
    \E i \in 1..Len(languages) : <<word, languages[i]>> \in word_cache

\* The rows add_words_to_cache offers to the cache, in the order of the futures:
\* one per language whose lookup answered 'exists'.
RECURSIVE add_words_to_cache(_, _, _, _)
add_words_to_cache(cache, word, languages, results) ==
    IF languages = <<>> \/ is_word_blacklisted(word, FALSE)
    THEN cache
    ELSE add_words_to_cache(
             IF Head(results) = API_RESPONSE_WORD_EXISTS
             THEN insert_or_ignore(cache, word, Head(languages))
             ELSE cache,
             word, Tail(languages), Tail(results))

\* A loop that examines the first future only.
query_response_code_first(results) == Head(results)

\* The value query_response_code holds after the loop over the futures: the
\* loop stops at the first 'exists', otherwise it runs to the last future.
RECURSIVE query_response_code(_)
query_response_code(results) ==
    IF Len(results) = 1 \/ Head(results) = API_RESPONSE_WORD_EXISTS
    THEN Head(results)
    ELSE query_response_code(Tail(results))

\* A reconciliation that grants the role and never revokes it.
add_remove_failed_role_add_only(cfg, role, holders) ==
    IF role # None /\ cfg.failed_member_id \in guild_members
    THEN holders \cup {cfg.failed_member_id}
    ELSE holders

\* Members holding the failed role after add_remove_failed_role ran with the
\* given config: the role is taken from every holder but the failed member, and
\* given to the failed member unless fetch_member raises NotFound.
add_remove_failed_role(cfg, role, holders) ==
    IF role # None
    THEN LET kept == {m \in holders : m = cfg.failed_member_id}
             handled_member == kept # {}
         IN  IF ~handled_member /\ cfg.failed_member_id # None
                /\ cfg.failed_member_id \in guild_members
             THEN kept \cup {cfg.failed_member_id}
             ELSE kept
    ELSE holders

\* The config after add_remove_failed_role: a failed member who is no longer in
\* the guild (NotFound) is forgotten.
add_remove_failed_role_config(cfg, role, holders) ==
    IF /\ role # None
       /\ cfg.failed_member_id # None
       /\ cfg.failed_member_id \notin holders
       /\ cfg.failed_member_id \notin guild_members
    THEN [cfg EXCEPT !.failed_member_id = None, !.correct_inputs_by_failed_member = 0]
    ELSE cfg

\* The rows add_remove_reliable_role selects: guild members above both thresholds
\* (the accuracy is NULL, hence not above the threshold, for a row without turns).
reliable_db_members(table) ==
    {m \in guild_members :
        /\ table[m].present
        /\ table[m].karma > RELIABLE_ROLE_KARMA_THRESHOLD * Scale
        /\ table[m].correct + table[m].wrong # 0
        /\ 100 * table[m].correct
             > RELIABLE_ROLE_ACCURACY_THRESHOLD * (table[m].correct + table[m].wrong)}

\* A reconciliation that grants the role and never revokes it.
add_remove_reliable_role_add_only(role, table, holders) ==
    IF role # None THEN holders \cup reliable_db_members(table) ELSE holders

\* Members holding the reliable role after add_remove_reliable_role ran.
add_remove_reliable_role(role, table, holders) ==
    IF role # None
    THEN LET db_members == reliable_db_members(table)
             only_db_members == db_members \ holders
             only_role_members == holders \ db_members
         IN  (holders \cup {m \in only_db_members : m \in guild_members})
                 \ {m \in only_role_members : m \in guild_members}
    ELSE holders

\* The smallest idle task takes the next message or command.
FreeTask == IF pc["t1"] = "idle" THEN "t1" ELSE "t2"
SomeTaskIdle == \E t \in Tasks : pc[t] = "idle"

Finish(t, kind, reason) ==
    /\ pc' = [pc EXCEPT ![t] = "idle"]
    /\ msg' = [msg EXCEPT ![t] = NoMsg]
    /\ last_outcome' = Outcome(kind, reason)

\* A rejection that forgets the words used so far.
soft_reject_forgetting(t, reason) ==
    /\ Finish(t, "SoftReject", reason)
    /\ used_words' = {}
    /\ UNCHANGED <<server_configs, db_server_config, db_member>>

\* Lines 262-267, 305-309, 335-340: warn the author and return; nothing is
\* written and nothing is committed.
soft_reject(t, reason) ==
    /\ Finish(t, "SoftReject", reason)
    /\ UNCHANGED <<server_configs, db_server_config, db_member, used_words>>

Legal(word) == \A i \in 1..Len(word) : word[i] \in POSSIBLE_CHARACTERS

\* ------------------------------------------------------------- on_message
\* Lines 240-267: the checks before the first transaction.
MsgStart(author, word, channel) ==
    LET t == FreeTask
        game_mode == MessageGameMode(channel)
    IN  /\ started < MaxMessages
        /\ SomeTaskIdle
        /\ started' = started + 1
        /\ IF game_mode = None
           THEN /\ Finish(t, "Ignored", "channel")
                /\ UNCHANGED <<server_configs, db_server_config, db_member, used_words>>
           ELSE IF ~Legal(word) \/ Len(word) = 0
           THEN /\ Finish(t, "Ignored", "characters")
                /\ UNCHANGED <<server_configs, db_server_config, db_member, used_words>>
           ELSE IF Len(word) = 1
           THEN soft_reject(t, "single_letter")
           ELSE /\ pc' = [pc EXCEPT ![t] = "member"]
                /\ msg' = [msg EXCEPT ![t] = [NoMsg EXCEPT !.author = author, !.word = word,
                                                          !.game_mode = game_mode]]
                /\ UNCHANGED <<last_outcome, server_configs, db_server_config, db_member,
                               used_words>>
        /\ UNCHANGED <<guild_members, server_reliable_roles, reliable_role_members, banned_member,
                       lock,
                       word_cache, blacklist, whitelist, server_failed_roles,
                       failed_role_members, server_histories, SINGLE_PLAYER, commands,
                       accepted, mistakes>>

\* An existence check that never finds the row.
member_never_exists(table, member_id) == FALSE

member_exists(table, member_id) == table[member_id].present

\* Lines 269-292, the first transaction: take the lock, insert the member's row
\* with zero stats unless it exists, commit, release the lock.
MsgMember(t) ==
    /\ pc[t] = "member"
    /\ LockFree
    /\ db_member' = IF ~member_exists(db_member, msg[t].author)
                    THEN [db_member EXCEPT ![msg[t].author] = ZeroRow]
                    ELSE db_member
    /\ pc' = [pc EXCEPT ![t] = "gate"]
    /\ UNCHANGED <<guild_members, server_reliable_roles, reliable_role_members, banned_member, 
                   lock, msg, server_configs, db_server_config, used_words, word_cache,
                   blacklist, whitelist, server_failed_roles, failed_role_members,
                   server_histories, SINGLE_PLAYER, started, commands, accepted, mistakes,
                   last_outcome>>

\* A repetition check that never finds the word.
word_never_used(word) == FALSE

\* Lines 325-334: the used_words query of the repetition check.
word_already_used(word) == word \in used_words

\* Lines 294-340: take the lock again; whitelist, blacklist, cache and repetition.
MsgGate(t) ==
    LET word == msg[t].word
        word_whitelisted == is_word_whitelisted(word)
        future == ~(word_whitelisted \/ is_word_in_cache(word))
    IN  /\ pc[t] = "gate"
        /\ LockFree
        /\ IF ~word_whitelisted /\ is_word_blacklisted(word, TRUE)
           THEN soft_reject(t, "blacklisted") /\ UNCHANGED lock
           ELSE IF word_already_used(word)
           THEN soft_reject(t, "repeated") /\ UNCHANGED lock
           ELSE /\ lock' = t
                /\ pc' = [pc EXCEPT ![t] = "decide"]
                /\ msg' = [msg EXCEPT ![t].future = future]
                /\ UNCHANGED <<last_outcome, server_configs, db_server_config, db_member,
                               used_words>>
        /\ UNCHANGED <<guild_members, server_reliable_roles, reliable_role_members, banned_member,
                       word_cache,
                       blacklist, whitelist, server_failed_roles, failed_role_members,
                       server_histories, SINGLE_PLAYER, started, commands, accepted,
                       mistakes>>

\* handle_mistake, lines 452-482, followed by the caller's commit.
handle_mistake(t, reason) ==
    LET member_id == msg[t].author
        game_mode == msg[t].game_mode
        cfg1 == IF server_failed_roles # None
                THEN [server_configs EXCEPT !.failed_member_id = member_id]
                ELSE server_configs
        cfg2 == fail_chain(add_remove_failed_role_config(cfg1, server_failed_roles,
                                                         failed_role_members),
                           game_mode, member_id)
        row == db_member[member_id]
    IN  /\ failed_role_members' = add_remove_failed_role(cfg1, server_failed_roles,
                                                         failed_role_members)
        /\ server_configs' = cfg2
        /\ db_member' = IF row.present
                        THEN [db_member EXCEPT ![member_id] =
                                [row EXCEPT !.score = row.score - 1,
                                            !.wrong = row.wrong + 1,
                                            !.karma = func_max(0, row.karma - MISTAKE_PENALTY * Scale)]]
                        ELSE db_member
        /\ used_words' = {}
        /\ db_server_config' = cfg2
        /\ mistakes' = [mistakes EXCEPT ![game_mode] = @ + 1]
        /\ Finish(t, "Mistake", reason)
        /\ UNCHANGED <<word_cache, server_histories, accepted, reliable_role_members>>

\* Lines 402-448: the accepted turn.
accept(t) ==
    LET member_id == msg[t].author
        game_mode == msg[t].game_mode
        word == msg[t].word
        cfg1 == update_current(server_configs, game_mode, member_id, word)
        cfg2 == reaction_emoji(cfg1, game_mode)
        karma == calculate_total_karma(word, server_histories[member_id])
        row == db_member[member_id]
        redeem == server_failed_roles # None /\ cfg2.failed_member_id = member_id
        inputs == cfg2.correct_inputs_by_failed_member + 1
        cfg3 == IF ~redeem THEN cfg2
                ELSE IF inputs >= REDEMPTION_THRESHOLD
                THEN [cfg2 EXCEPT !.failed_member_id = None,
                                  !.correct_inputs_by_failed_member = 0]
                ELSE [cfg2 EXCEPT !.correct_inputs_by_failed_member = inputs]
        table == IF row.present
                 THEN [db_member EXCEPT ![member_id] =
                         [row EXCEPT !.score = row.score + 1,
                                     !.correct = row.correct + 1,
                                     !.karma = func_max(0, row.karma + karma)]]
                 ELSE db_member
    IN  /\ server_configs' = cfg3
        /\ server_histories' = [server_histories EXCEPT ![member_id] = HistoryAppend(@, word)]
        /\ db_member' = table
        /\ reliable_role_members' = add_remove_reliable_role(server_reliable_roles, table,
                                                             reliable_role_members)
        /\ used_words' = used_words \cup {word}
        /\ failed_role_members' = IF redeem /\ inputs >= REDEMPTION_THRESHOLD
                                  THEN add_remove_failed_role(cfg3, server_failed_roles,
                                                              failed_role_members)
                                  ELSE failed_role_members
        /\ word_cache' = add_to_cache(word_cache, word)
        /\ db_server_config' = cfg3
        /\ accepted' = [accepted EXCEPT ![game_mode] = @ + 1]
        /\ Finish(t, "Accepted", "accepted")
        /\ UNCHANGED mistakes

\* A lookup failure that is charged to the author as a wrong answer.
lookup_error_counted(t) ==
    /\ Finish(t, "Error", "lookup")
    /\ db_member' = [db_member EXCEPT ![msg[t].author].wrong = @ + 1]
    /\ UNCHANGED <<server_configs, db_server_config, used_words, word_cache,
                   failed_role_members, server_histories, accepted, mistakes,
                   reliable_role_members>>

\* Lines 395-400: the lookup failed; warn the author and return without a commit.
lookup_error(t) ==
    /\ Finish(t, "Error", "lookup")
    /\ UNCHANGED <<server_configs, db_server_config, db_member, used_words,
                   word_cache, failed_role_members, server_histories, accepted,
                   mistakes, reliable_role_members>>

\* A turn-order check that ignores the SINGLE_PLAYER switch.
wrong_member_always(last_member_id, author) == last_member_id = author

\* Line 345: the turn-order condition.
wrong_member(last_member_id, author) == ~SINGLE_PLAYER /\ last_member_id = author

\* Lines 342-448: turn order, continuity, the lookup's answer, then the turn.
MsgDecide(t, result) ==
    LET gs == server_configs.game_state[msg[t].game_mode]
        word == msg[t].word
    IN  /\ pc[t] = "decide"
        /\ lock' = release_lock(t)
        /\ IF wrong_member(gs.last_member_id, msg[t].author)
           THEN handle_mistake(t, "wrong_member")
           ELSE IF gs.current_word # NoWord /\ Head(word) # Last(gs.current_word)
           THEN handle_mistake(t, "wrong_letter")
           ELSE IF msg[t].future /\ result = API_RESPONSE_WORD_DOESNT_EXIST
           THEN handle_mistake(t, "not_exist")
           ELSE IF msg[t].future /\ result = API_RESPONSE_ERROR
           THEN lookup_error(t)
           ELSE accept(t)
        /\ UNCHANGED <<guild_members, server_reliable_roles, banned_member, 
                       blacklist, whitelist, server_failed_roles, SINGLE_PLAYER, started,
                       commands>>

\* handle_mistake when channel.send (line 466) raises: the failed role was
\* reconciled and fail_chain has changed the config in memory; no statement was
\* executed, and the exception leaves on_message through the connection block.
handle_mistake_fault(t) ==
    LET member_id == msg[t].author
        game_mode == msg[t].game_mode
        cfg1 == IF server_failed_roles # None
                THEN [server_configs EXCEPT !.failed_member_id = member_id]
                ELSE server_configs
        cfg2 == fail_chain(add_remove_failed_role_config(cfg1, server_failed_roles,
                                                         failed_role_members),
                           game_mode, member_id)
    IN  /\ failed_role_members' = add_remove_failed_role(cfg1, server_failed_roles,
                                                         failed_role_members)
        /\ server_configs' = cfg2
        /\ Finish(t, "Fault", "platform")

\* The accepted turn when message.add_reaction (line 407) raises: update_current
\* and reaction_emoji have changed the config in memory, nothing was executed.
accept_fault(t) ==
    /\ server_configs' = reaction_emoji(update_current(server_configs, msg[t].game_mode,
                                                       msg[t].author, msg[t].word),
                                        msg[t].game_mode)
    /\ Finish(t, "Fault", "platform")
    /\ UNCHANGED failed_role_members

\* Lines 342-448 when the platform call of the chosen branch fails: no except
\* clause surrounds it, the transaction is rolled back, the lock is released
\* and the exception reaches the library's event dispatcher.
MsgDecideFault(t, result) ==
    LET gs == server_configs.game_state[msg[t].game_mode]
        word == msg[t].word
    IN  /\ pc[t] = "decide"
        /\ lock' = release_lock(t)
        /\ IF wrong_member(gs.last_member_id, msg[t].author)
           THEN handle_mistake_fault(t)
           ELSE IF gs.current_word # NoWord /\ Head(word) # Last(gs.current_word)
           THEN handle_mistake_fault(t)
           ELSE IF msg[t].future /\ result = API_RESPONSE_WORD_DOESNT_EXIST
           THEN handle_mistake_fault(t)
           ELSE IF msg[t].future /\ result = API_RESPONSE_ERROR
           THEN /\ Finish(t, "Fault", "platform")
                /\ UNCHANGED <<server_configs, failed_role_members>>
           ELSE accept_fault(t)
        /\ UNCHANGED <<guild_members, server_reliable_roles, reliable_role_members,
                       banned_member, db_server_config, db_member, used_words, word_cache,
                       blacklist, whitelist, server_failed_roles, server_histories,
                       SINGLE_PLAYER, started, commands, accepted, mistakes>>

\* on_guild_join for a server whose row exists: INSERT OR IGNORE keeps the row,
\* the in-memory config is replaced by a new default one.
OnGuildJoin ==
    /\ commands < MaxCommands
    /\ LockFree
    /\ commands' = commands + 1
    /\ server_configs' = ServerConfig
    /\ UNCHANGED <<guild_members, server_reliable_roles, reliable_role_members,
                   banned_member, lock, pc, msg, db_server_config, db_member, used_words,
                   word_cache, blacklist, whitelist, server_failed_roles,
                   failed_role_members, server_histories, SINGLE_PLAYER, started, accepted,
                   mistakes, last_outcome>>

\* ---------------------------------------------------------------- commands
\* set_channel: the in-memory write, made before the lock is requested.
SetChannelWrite(channel, game_mode) ==
    LET t == FreeTask
        other_game_mode == IF game_mode = "NORMAL" THEN "HARD" ELSE "NORMAL"
    IN  /\ commands < MaxCommands
        /\ SomeTaskIdle
        /\ server_configs.game_state[other_game_mode].channel_id # channel
        /\ commands' = commands + 1
        /\ server_configs' = [server_configs EXCEPT !.game_state[game_mode].channel_id = channel]
        /\ pc' = [pc EXCEPT ![t] = "set_channel_sync"]
        /\ UNCHANGED <<guild_members, server_reliable_roles, reliable_role_members, banned_member, 
                       lock, msg, db_server_config, db_member, used_words, word_cache,
                       blacklist, whitelist, server_failed_roles, failed_role_members,
                       server_histories, SINGLE_PLAYER, started, accepted, mistakes,
                       last_outcome>>

\* set_channel: sync_to_db takes the lock, writes the row and commits.
SetChannelSync(t) ==
    /\ pc[t] = "set_channel_sync"
    /\ LockFree
    /\ db_server_config' = server_configs
    /\ pc' = [pc EXCEPT ![t] = "idle"]
    /\ UNCHANGED <<guild_members, server_reliable_roles, reliable_role_members, banned_member, 
                   lock, msg, server_configs, db_member, used_words, word_cache, blacklist,
                   whitelist, server_failed_roles, failed_role_members, server_histories,
                   SINGLE_PLAYER, started, commands, accepted, mistakes, last_outcome>>

\* set_failed_role: failed_role_id is written before the lock is requested.
SetFailedRoleWrite(role) ==
    LET t == FreeTask
    IN  /\ commands < MaxCommands
        /\ SomeTaskIdle
        /\ commands' = commands + 1
        /\ server_configs' = [server_configs EXCEPT !.failed_role_id = role]
        /\ pc' = [pc EXCEPT ![t] = "set_failed_role_locked"]
        /\ msg' = [msg EXCEPT ![t] = [NoMsg EXCEPT !.arg = role]]
        /\ UNCHANGED <<guild_members, server_reliable_roles, reliable_role_members, banned_member, 
                       lock, db_server_config, db_member, used_words, word_cache, blacklist,
                       whitelist, server_failed_roles, failed_role_members, server_histories,
                       SINGLE_PLAYER, started, accepted, mistakes, last_outcome>>

\* set_failed_role: the locked block (sync, cache the role, reconcile, commit).
SetFailedRoleLocked(t) ==
    /\ pc[t] = "set_failed_role_locked"
    /\ LockFree
    /\ server_configs' = add_remove_failed_role_config(server_configs, msg[t].arg,
                                                       failed_role_members)
    /\ db_server_config' = server_configs'
    /\ server_failed_roles' = msg[t].arg
    /\ failed_role_members' = add_remove_failed_role(server_configs, msg[t].arg,
                                                     failed_role_members)
    /\ pc' = [pc EXCEPT ![t] = "idle"]
    /\ msg' = [msg EXCEPT ![t] = NoMsg]
    /\ UNCHANGED <<guild_members, server_reliable_roles, reliable_role_members, banned_member,
                   lock, db_member, used_words, word_cache, blacklist,
                   whitelist, server_histories, SINGLE_PLAYER, started, commands, accepted,
                   mistakes, last_outcome>>

ListCommandFrame ==
    /\ commands < MaxCommands
    /\ LockFree
    /\ commands' = commands + 1
    /\ UNCHANGED <<guild_members, server_reliable_roles, reliable_role_members, banned_member, 
                   lock, pc, msg, server_configs, db_server_config, db_member, used_words,
                   word_cache, server_failed_roles, failed_role_members, server_histories,
                   SINGLE_PLAYER, started, accepted, mistakes, last_outcome>>

\* ban_member ban: one locked transaction inserts or deletes the BannedMember row.
BanMember(member_id, ban) ==
    /\ commands < MaxCommands
    /\ LockFree
    /\ commands' = commands + 1
    /\ banned_member' = IF ban THEN banned_member \cup {member_id}
                               ELSE banned_member \ {member_id}
    /\ UNCHANGED <<guild_members, server_reliable_roles, reliable_role_members, lock, pc,
                   msg, server_configs, db_server_config, db_member, used_words,
                   word_cache, blacklist, whitelist, server_failed_roles,
                   failed_role_members, server_histories, SINGLE_PLAYER, started, accepted,
                   mistakes, last_outcome>>

BlacklistAdd(word) ==
    /\ ListCommandFrame
    /\ blacklist' = blacklist \cup {word}
    /\ UNCHANGED whitelist

WhitelistAdd(word) ==
    /\ ListCommandFrame
    /\ whitelist' = whitelist \cup {word}
    /\ UNCHANGED blacklist

\* The config clean_server leaves: the flat attributes it assigns are the
\* columns of the Normal mode (model.py:160-165); game_state of the Hard mode,
\* languages and the cached role objects are not touched.
clean_server_config(cfg) ==
    [cfg EXCEPT !.game_state["NORMAL"] = GameModeState,
                !.reliable_role_id = None,
                !.failed_role_id = None,
                !.failed_member_id = None,
                !.correct_inputs_by_failed_member = 0]

\* clean_server for a server the bot is in: one locked transaction deletes the
\* used words, members, blacklist and whitelist of the server, resets the
\* config in memory and writes it to its row.
CleanServer ==
    /\ commands < MaxCommands
    /\ LockFree
    /\ commands' = commands + 1
    /\ used_words' = {}
    /\ db_member' = [m \in Members |-> NoRow]
    /\ blacklist' = {}
    /\ whitelist' = {}
    /\ server_configs' = clean_server_config(server_configs)
    /\ db_server_config' = server_configs'
    /\ last_outcome' = Outcome("CleanServer", "removed")
    /\ UNCHANGED <<guild_members, server_reliable_roles, reliable_role_members,
                   banned_member, lock, pc, msg, word_cache, server_failed_roles,
                   failed_role_members, server_histories, SINGLE_PLAYER, started, accepted,
                   mistakes>>

\* ---------------------------------------------------------------- check_word
\* check_word up to the start of the lookups: pattern and length, then, under
\* the lock, whitelist, blacklists and cache; an unknown word gets one lookup
\* per enabled language, whose answers are results. (No word of the alphabet
\* has an accent, so the English-only shortcut never applies.)
CheckWordStart(word, results) ==
    LET t == FreeTask
        languages == server_configs.languages
    IN  /\ commands < MaxChecks
        /\ SomeTaskIdle
        /\ Len(results) = Len(languages)
        /\ commands' = commands + 1
        /\ IF ~Legal(word)
           THEN Finish(t, "CheckWord", "not_legal") /\ UNCHANGED lock
           ELSE IF Len(word) = 1
           THEN Finish(t, "CheckWord", "not_valid") /\ UNCHANGED lock
           ELSE /\ LockFree
                /\ IF is_word_whitelisted(word)
                   THEN Finish(t, "CheckWord", "valid") /\ UNCHANGED lock
                   ELSE IF is_word_blacklisted(word, TRUE)
                   THEN Finish(t, "CheckWord", "blacklisted") /\ UNCHANGED lock
                   ELSE IF is_word_in_cache_languages(word, languages)
                   THEN Finish(t, "CheckWord", "valid") /\ UNCHANGED lock
                   ELSE /\ lock' = t
                        /\ pc' = [pc EXCEPT ![t] = "check_word_lookup"]
                        /\ msg' = [msg EXCEPT ![t] =
                                     [NoMsg EXCEPT !.word = word,
                                                   !.arg = [languages |-> languages,
                                                            results |-> results]]]
                        /\ UNCHANGED last_outcome
        /\ UNCHANGED <<guild_members, server_reliable_roles, reliable_role_members,
                       banned_member, server_configs, db_server_config, db_member,
                       used_words, word_cache, blacklist, whitelist, server_failed_roles,
                       failed_role_members, server_histories, SINGLE_PLAYER, started,
                       accepted, mistakes>>

\* check_word from the loop over the futures to the end of the locked block.
CheckWordFinish(t) ==
    LET word == msg[t].word
        languages == msg[t].arg.languages
        results == msg[t].arg.results
        code == query_response_code(results)
    IN  /\ pc[t] = "check_word_lookup"
        /\ word_cache' = IF code = API_RESPONSE_WORD_EXISTS
                         THEN add_words_to_cache(word_cache, word, languages, results)
                         ELSE word_cache
        /\ Finish(t, "CheckWord",
                  IF code = API_RESPONSE_WORD_EXISTS THEN "valid"
                  ELSE IF code = API_RESPONSE_WORD_DOESNT_EXIST THEN "not_valid"
                  ELSE "error")
        /\ lock' = release_lock(t)
        /\ UNCHANGED <<guild_members, server_reliable_roles, reliable_role_members,
                       banned_member, server_configs, db_server_config, db_member,
                       used_words, blacklist, whitelist, server_failed_roles,
                       failed_role_members, server_histories, SINGLE_PLAYER, started,
                       commands, accepted, mistakes>>

\* ------------------------------------------------------------ specification
Next ==
    \/ \E m \in Messages : MsgStart(m[1], m[2], m[3])
    \/ \E t \in Tasks : MsgMember(t)
    \/ \E t \in Tasks : MsgGate(t)
    \/ \E t \in Tasks, result \in API_RESPONSES : MsgDecide(t, result)
    \/ \E channel \in Channels \ {"c1"} : SetChannelWrite(channel, "NORMAL")
    \/ \E t \in Tasks : SetChannelSync(t)
    \/ \E role \in Roles : SetFailedRoleWrite(role)
    \/ \E t \in Tasks : SetFailedRoleLocked(t)
    \/ \E word \in BlacklistWords : BlacklistAdd(word)
    \/ \E word \in WhitelistWords : WhitelistAdd(word)
    \/ \E b \in BanInputs : BanMember(b[1], b[2])

Spec == Init /\ [][Next]_vars

\* The check_word command in a server with any list of enabled languages.
InitCheckWord ==
    /\ lock = None
    /\ pc = [t \in Tasks |-> "idle"]
    /\ msg = [t \in Tasks |-> NoMsg]
    /\ server_configs \in {[InitialConfig EXCEPT !.languages = languages] :
                               languages \in LanguageLists}
    /\ db_server_config = server_configs
    /\ db_member = [m \in Members |-> NoRow]
    /\ used_words = {}
    /\ word_cache = {}
    /\ blacklist = {}
    /\ whitelist = {}
    /\ server_failed_roles = None
    /\ failed_role_members = {}
    /\ server_histories = [m \in Members |-> <<>>]
    /\ SINGLE_PLAYER = FALSE
    /\ started = 0
    /\ commands = 0
    /\ accepted = [m \in GameModes |-> 0]
    /\ mistakes = [m \in GameModes |-> 0]
    /\ last_outcome = NoOutcome
    /\ guild_members = Members
    /\ server_reliable_roles = None
    /\ reliable_role_members = {}
    /\ banned_member = {}

NextCheckWord ==
    \/ \E word \in CheckWords,
          results \in [{1} -> API_RESPONSES] \cup [{1, 2} -> API_RESPONSES] :
            CheckWordStart(word, results)
    \/ \E t \in Tasks : CheckWordFinish(t)
    \/ \E word \in BlacklistWords : BlacklistAdd(word)
    \/ \E word \in WhitelistWords : WhitelistAdd(word)

\* Member rows around the reliable thresholds: above both (one mistake from
\* losing the karma, one mistake from losing the accuracy), one accepted word
\* short of the accuracy, and a new member.
MemberRows ==
    {[score |-> 199, correct |-> 200, wrong |-> 1, karma |-> 55 * Scale, present |-> TRUE],
     [score |-> 99, correct |-> 100, wrong |-> 1, karma |-> 70 * Scale, present |-> TRUE],
     [score |-> 98, correct |-> 99, wrong |-> 1, karma |-> 60 * Scale, present |-> TRUE]}

\* <<failed_member_id, correct_inputs_by_failed_member, holders of the failed role>>:
\* nobody failed; m2 failed and the role drifted to m1; m1 failed and is one
\* accepted word short of redemption.
FailedStates ==
    {<<None, 0, {}>>, <<"m2", 0, {"m1"}>>, <<"m1", REDEMPTION_THRESHOLD - 1, {"m1"}>>}

\* A server with both roles configured, members with a playing record, role
\* membership changed by hand on the platform, and possibly a member who left.
InitRoles ==
    /\ lock = None
    /\ pc = [t \in Tasks |-> "idle"]
    /\ msg = [t \in Tasks |-> NoMsg]
    /\ guild_members \in {Members, {"m1"}}
    /\ \E f \in FailedStates :
          /\ server_configs = [InitialConfig EXCEPT !.failed_role_id = "r1",
                                                    !.reliable_role_id = "r2",
                                                    !.failed_member_id = f[1],
                                                    !.correct_inputs_by_failed_member = f[2]]
          /\ failed_role_members = f[3]
    /\ db_server_config = server_configs
    /\ db_member \in [Members -> MemberRows \cup {ZeroRow}]
    /\ db_member["m2"] \in {ZeroRow, CHOOSE row \in MemberRows : row.correct = 200}
    /\ db_member["m1"] \in MemberRows
    /\ used_words = {}
    /\ word_cache = {}
    /\ blacklist = {}
    /\ whitelist = {}
    /\ server_failed_roles = "r1"
    /\ server_histories = [m \in Members |-> <<>>]
    /\ SINGLE_PLAYER = FALSE
    /\ started = 0
    /\ commands = 0
    /\ accepted = [m \in GameModes |-> 0]
    /\ mistakes = [m \in GameModes |-> 0]
    /\ last_outcome = NoOutcome
    /\ server_reliable_roles = "r2"
    /\ reliable_role_members \in SUBSET guild_members
    /\ banned_member = {}

NextRoles ==
    \/ \E m \in RoleMessages : MsgStart(m[1], m[2], m[3])
    \/ \E t \in Tasks : MsgMember(t)
    \/ \E t \in Tasks : MsgGate(t)
    \/ \E t \in Tasks, result \in API_RESPONSES : MsgDecide(t, result)
    \/ \E role \in Roles : SetFailedRoleWrite(role)
    \/ \E t \in Tasks : SetFailedRoleLocked(t)

SpecRoles == InitRoles /\ [][NextRoles]_vars

\* ------------------------------------------------------------------ karma
\* Words of the karma scenarios: 'ax' has a negative base karma, 'xa' and 'xx'
\* a positive one, with different trailing letters.
KarmaWords == {w_ax, w_xa, w_xx}
\* Histories of the member the playing member is compared with.
KarmaHistories == {<<>>, <<w_xa>>, <<w_ax, w_xx>>, <<w_xx, w_xa, w_ax, w_ax, w_xx>>}

InitKarma ==
    /\ lock = None
    /\ pc = [t \in Tasks |-> "idle"]
    /\ msg = [t \in Tasks |-> NoMsg]
    /\ server_configs = InitialConfig
    /\ db_server_config = InitialConfig
    /\ db_member = [m \in Members |-> ZeroRow]
    /\ used_words = {}
    /\ word_cache = {}
    /\ blacklist = {}
    /\ whitelist = {}
    /\ server_failed_roles = None
    /\ failed_role_members = {}
    /\ \E last_words \in KarmaHistories :
          server_histories = [m \in Members |-> IF m = "m2" THEN last_words ELSE <<>>]
    /\ SINGLE_PLAYER = TRUE
    /\ started = 0
    /\ commands = 0
    /\ accepted = [m \in GameModes |-> 0]
    /\ mistakes = [m \in GameModes |-> 0]
    /\ last_outcome = NoOutcome
    /\ guild_members = Members
    /\ server_reliable_roles = None
    /\ reliable_role_members = {}
    /\ banned_member = {}

\* Lines 410-412 of the accepted turn: the karma of the word against the
\* author's history, then the word joins the history.
KarmaTurn(member_id, word) ==
    /\ last_outcome' = Outcome("Karma",
                               calculate_total_karma(word, server_histories[member_id]))
    /\ server_histories' = [server_histories EXCEPT ![member_id] = HistoryAppend(@, word)]
    /\ UNCHANGED <<guild_members, server_reliable_roles, reliable_role_members,
                   banned_member, lock, pc, msg, server_configs, db_server_config,
                   db_member, used_words, word_cache, blacklist, whitelist,
                   server_failed_roles, failed_role_members, SINGLE_PLAYER, started,
                   commands, accepted, mistakes>>

NextKarma == \E word \in KarmaWords : KarmaTurn("m1", word)

SpecKarma == InitKarma /\ [][NextKarma]_vars

\* The messages of the administration scenarios: both game channels are played.
AdminMessages == {<<"m1", w_ax, "c1">>, <<"m2", w_xa, "c2">>, <<"m1", w_xa, "c2">>}

\* reset_stats, manager_cmds.py:68-71: both game states are replaced by a
\* fresh GameModeState and failed_member_id is cleared, in memory.
reset_stats_config(cfg) ==
    [cfg EXCEPT !.game_state = [m \in GameModes |-> GameModeState],
                !.failed_member_id = None]

\* reset_stats, manager_cmds.py:62-90. The config is reset before the lock is
\* requested. With the lock free the transaction follows at once: the config
\* row is written, the member rows are deleted, commit. With the lock held the
\* command waits for it.
ResetStats ==
    LET t == FreeTask
    IN  /\ commands < MaxCommands
        /\ SomeTaskIdle
        /\ commands' = commands + 1
        /\ server_configs' = reset_stats_config(server_configs)
        /\ IF LockFree
           THEN /\ db_server_config' = server_configs'
                /\ db_member' = [m \in Members |-> NoRow]
                /\ last_outcome' = Outcome("ResetStats", "reset")
                /\ UNCHANGED pc
           ELSE /\ pc' = [pc EXCEPT ![t] = "reset_stats_locked"]
                /\ UNCHANGED <<db_server_config, db_member, last_outcome>>
        /\ UNCHANGED <<guild_members, server_reliable_roles, reliable_role_members,
                       banned_member, lock, msg, used_words, word_cache, blacklist,
                       whitelist, server_failed_roles, failed_role_members,
                       server_histories, SINGLE_PLAYER, started, accepted, mistakes>>

\* reset_stats, manager_cmds.py:73-82, once the lock is free.
ResetStatsLocked(t) ==
    /\ pc[t] = "reset_stats_locked"
    /\ LockFree
    /\ db_server_config' = server_configs
    /\ db_member' = [m \in Members |-> NoRow]
    /\ Finish(t, "ResetStats", "reset")
    /\ UNCHANGED <<guild_members, server_reliable_roles, reliable_role_members,
                   banned_member, lock, server_configs, used_words, word_cache, blacklist,
                   whitelist, server_failed_roles, failed_role_members, server_histories,
                   SINGLE_PLAYER, started, commands, accepted, mistakes>>

\* clean_user, main.py:831-853: the member's rows are deleted in one transaction.
CleanUser(member_id) ==
    /\ commands < MaxCommands
    /\ LockFree
    /\ commands' = commands + 1
    /\ db_member' = [db_member EXCEPT ![member_id] = NoRow]
    /\ last_outcome' = Outcome("CleanUser", "removed")
    /\ UNCHANGED <<guild_members, server_reliable_roles, reliable_role_members,
                   banned_member, lock, pc, msg, server_configs, db_server_config,
                   used_words, word_cache, blacklist, whitelist, server_failed_roles,
                   failed_role_members, server_histories, SINGLE_PLAYER, started, accepted,
                   mistakes>>

NextAdmin ==
    \/ \E m \in AdminMessages : MsgStart(m[1], m[2], m[3])
    \/ \E t \in Tasks : MsgMember(t)
    \/ \E t \in Tasks : MsgGate(t)
    \/ \E t \in Tasks, result \in API_RESPONSES : MsgDecide(t, result)
    \/ \E t \in Tasks, result \in API_RESPONSES : MsgDecideFault(t, result)
    \/ \E word \in BlacklistWords : BlacklistAdd(word)
    \/ CleanServer
    \/ OnGuildJoin
    \/ ResetStats
    \/ \E t \in Tasks : ResetStatsLocked(t)
    \/ \E member_id \in Members : CleanUser(member_id)

SpecAdmin == Init /\ [][NextAdmin]_vars

\* The event loop runs every task that can take a step, and the lock wakes its
\* waiters in turn: no handler is left waiting while it could proceed.
Fairness ==
    \A t \in Tasks :
        /\ WF_vars(MsgMember(t))
        /\ WF_vars(MsgGate(t))
        /\ WF_vars(\E result \in API_RESPONSES : MsgDecide(t, result))
        /\ WF_vars(SetChannelSync(t))
        /\ WF_vars(SetFailedRoleLocked(t))

\* Messages that take every path through on_message: accepted, repeated,
\* blacklisted, and, by the lookup's answer, a mistake or a lookup error.
LiveMessages == {<<"m1", w_ax, "c1">>, <<"m2", w_ax, "c1">>, <<"m1", w_xx, "c1">>}

NextLive ==
    \/ \E m \in LiveMessages : MsgStart(m[1], m[2], m[3])
    \/ \E t \in Tasks : MsgMember(t)
    \/ \E t \in Tasks : MsgGate(t)
    \/ \E t \in Tasks, result \in API_RESPONSES : MsgDecide(t, result)
    \/ \E channel \in Channels \ {"c1"} : SetChannelWrite(channel, "NORMAL")
    \/ \E t \in Tasks : SetChannelSync(t)
    \/ \E role \in Roles : SetFailedRoleWrite(role)
    \/ \E t \in Tasks : SetFailedRoleLocked(t)

SpecLive == Init /\ [][NextLive]_vars /\ Fairness

SpecCheckWord == InitCheckWord /\ [][NextCheckWord]_vars

\* ------------------------------------------------------------------ claims
\* C1: with no Mistake in a game mode, the mode's current_count equals the initial
\* count (0) plus the number of messages Accepted in it, whatever the interleaving
\* of the tasks: no increment is lost and none is applied twice.
C1_NoLostIncrement ==
    \A m \in GameModes :
        mistakes[m] = 0 => server_configs.game_state[m].current_count = accepted[m]

\* Two messages of the Normal chain were accepted, none was a mistake, and a
\* third message is in flight.
C1_Witness ==
    /\ accepted["NORMAL"] >= 2
    /\ mistakes["NORMAL"] = 0
    /\ \E t \in Tasks : pc[t] # "idle" /\ msg[t].game_mode = "NORMAL"

\* C2: a ServerConfig field is written only in a step of the task that holds the
\* global lock (every mutating operation takes the lock before its first write).
C2_WritesUnderLock ==
    [][server_configs' # server_configs => \E t \in Tasks : lock = t /\ pc'[t] # pc[t]]_vars

\* C3: when a word is Accepted on a chain that has a current word, its first
\* TokenWidth letters are the last TokenWidth letters of that word (the previous
\* Accepted word of the mode): one letter in Normal mode, two in Hard mode.
C3_Continuity ==
    [][\A m \in GameModes :
         LET prev == server_configs.game_state[m].current_word
             next == server_configs'.game_state[m].current_word
             w == TokenWidth(m)
         IN  (accepted'[m] # accepted[m] /\ prev # NoWord)
             => /\ Len(prev) >= w
                /\ Len(next) >= w
                /\ SubSeq(next, 1, w) = SubSeq(prev, Len(prev) - w + 1, Len(prev))]_vars

\* C4: a step that ends a message as a Mistake leaves no used_words rows, sets the
\* mode's current_count to 0, and keeps the mode's current_word and last_member_id.
C4_MistakeReset ==
    [][\A m \in GameModes :
         mistakes'[m] # mistakes[m]
         => /\ used_words' = {}
            /\ server_configs'.game_state[m].current_count = 0
            /\ server_configs'.game_state[m].current_word
                 = server_configs.game_state[m].current_word
            /\ server_configs'.game_state[m].last_member_id
                 = server_configs.game_state[m].last_member_id]_vars

\* The last message was a Mistake on a chain that had a word and a last member.
C4_Witness ==
    /\ last_outcome.kind = "Mistake"
    /\ \E m \in GameModes :
         /\ mistakes[m] >= 1
         /\ server_configs.game_state[m].current_word # NoWord
         /\ server_configs.game_state[m].last_member_id # None
         /\ server_configs.game_state[m].current_count = 0
         /\ server_configs.game_state[m].high_score >= 2

\* C5: a message whose word is in used_words when the repetition check runs ends
\* there as a SoftReject, whoever sent it, and the ServerConfig (current_count
\* included) and used_words are unchanged.
C5_RepetitionSoftReject ==
    [][\A t \in Tasks :
         (pc[t] = "gate" /\ pc'[t] # "gate" /\ msg[t].word \in used_words)
         => /\ pc'[t] = "idle"
            /\ last_outcome'.kind = "SoftReject"
            /\ server_configs' = server_configs
            /\ used_words' = used_words]_vars

\* A repeated word was soft-rejected while the chain was running.
C5_Witness ==
    /\ last_outcome = Outcome("SoftReject", "repeated")
    /\ \E m \in GameModes : server_configs.game_state[m].current_count >= 1

\* C6: every member row has karma >= 0.
C6_KarmaNonNegative == \A m \in Members : db_member[m].karma >= 0

\* A member was penalised for a mistake and a member was credited a word whose
\* karma change is negative.
C6_Witness ==
    /\ \E m \in Members : db_member[m].wrong >= 1
    /\ \E m \in Members :
         /\ db_member[m].correct >= 1
         /\ \E i \in 1..Len(server_histories[m]) :
              calculate_total_karma(server_histories[m][i], <<>>) < 0

\* C7: the member upsert of a message leaves the author with a row: it is the
\* all-zero row when the author had none, and the table is untouched (the row is
\* neither re-created nor reset) when the author had one; no row is ever removed.
C7_MemberUpsert ==
    [][/\ \A m \in Members : db_member[m].present => db_member'[m].present
       /\ \A t \in Tasks :
            (pc[t] = "member" /\ pc'[t] = "gate")
            => LET a == msg[t].author
               IN  IF db_member[a].present
                   THEN db_member' = db_member
                   ELSE db_member' = [db_member EXCEPT ![a] = ZeroRow]]_vars

\* A member whose row already carries stats has sent a further message, which is
\* past the upsert.
C7_Witness ==
    \E t \in Tasks :
        /\ pc[t] = "gate"
        /\ db_member[msg[t].author].correct >= 1
        /\ db_member[msg[t].author].wrong >= 1

\* C8: a message that ends Accepted increases the mode's current_count by exactly 1,
\* sets current_word to its word and last_member_id to its author, puts the word in
\* used_words and adds 1 to the author's score and correct; on a chain with no
\* current word a message that reaches the decision is Accepted with current_count
\* 1 unless the lookup of its word answers "does not exist" or fails.
C8_Accepted ==
    [][\A t \in Tasks :
         (pc[t] = "decide" /\ pc'[t] = "idle")
         => LET m == msg[t].game_mode
                a == msg[t].author
                gs == server_configs.game_state[m]
                gs2 == server_configs'.game_state[m]
            IN  /\ accepted'[m] # accepted[m]
                   => /\ last_outcome'.kind = "Accepted"
                      /\ gs2.current_count = gs.current_count + 1
                      /\ gs2.current_word = msg[t].word
                      /\ gs2.last_member_id = a
                      /\ msg[t].word \in used_words'
                      /\ db_member'[a].score = db_member[a].score + 1
                      /\ db_member'[a].correct = db_member[a].correct + 1
                      /\ db_member'[a].wrong = db_member[a].wrong
                /\ (gs.current_word = NoWord
                    /\ last_outcome'.reason \notin {"not_exist", "lookup"})
                   => /\ accepted'[m] = accepted[m] + 1
                      /\ gs2.current_count = 1]_vars

\* A message was Accepted on a running chain, by a member who had played before.
C8_Witness ==
    /\ last_outcome.kind = "Accepted"
    /\ \E m \in GameModes :
         LET gs == server_configs.game_state[m]
         IN  /\ gs.current_count >= 2
             /\ gs.current_word \in used_words
             /\ db_member[gs.last_member_id].correct >= 2

\* C9: with SINGLE_PLAYER off, a message that reaches the decision and whose author
\* is the mode's last_member_id ends as a Mistake whatever its word: current_count
\* becomes 0, the author's wrong grows by exactly 1 and score drops by exactly 1;
\* with SINGLE_PLAYER on such a message is never a turn-order Mistake.
C9_TurnOrder ==
    [][\A t \in Tasks :
         (/\ pc[t] = "decide"
          /\ pc'[t] = "idle"
          /\ server_configs.game_state[msg[t].game_mode].last_member_id = msg[t].author)
         => LET m == msg[t].game_mode
                a == msg[t].author
            IN  IF ~SINGLE_PLAYER
                THEN /\ last_outcome' = Outcome("Mistake", "wrong_member")
                     /\ mistakes'[m] = mistakes[m] + 1
                     /\ server_configs'.game_state[m].current_count = 0
                     /\ db_member'[a].wrong = db_member[a].wrong + 1
                     /\ db_member'[a].score = db_member[a].score - 1
                ELSE last_outcome' # Outcome("Mistake", "wrong_member")]_vars

\* The member who played last sent the next message and it was a turn-order Mistake.
C9_Witness ==
    /\ ~SINGLE_PLAYER
    /\ last_outcome = Outcome("Mistake", "wrong_member")
    /\ \E m \in Members : db_member[m].wrong = 1 /\ db_member[m].score = 0

\* C10: a message whose word is in a global blacklist, or has three letters and
\* is missing from the global three-letter whitelist, ends at the blacklist check
\* as a SoftReject whatever the server's blacklist and whitelist contain.
C10_GlobalListsAlways ==
    [][\A t \in Tasks :
         (/\ pc[t] = "gate"
          /\ pc'[t] # "gate"
          /\ \/ msg[t].word \in GLOBAL_BLACKLIST_2_LETTER_WORDS
             \/ msg[t].word \in GLOBAL_BLACKLIST_N_LETTER_WORDS
             \/ (Len(msg[t].word) = 3 /\ msg[t].word \notin GLOBAL_WHITELIST_3_LETTER_WORDS))
         => /\ pc'[t] = "idle"
            /\ last_outcome'.kind = "SoftReject"]_vars

\* C10 (amended): such a word ends at the blacklist check as a SoftReject, with
\* the ServerConfig, member rows and used_words untouched, whatever the server's
\* blacklist contains, unless the word is on the server's whitelist.
C10_GlobalListsUnlessWhitelisted ==
    [][\A t \in Tasks :
         (/\ pc[t] = "gate"
          /\ pc'[t] # "gate"
          /\ msg[t].word \notin whitelist
          /\ \/ msg[t].word \in GLOBAL_BLACKLIST_2_LETTER_WORDS
             \/ msg[t].word \in GLOBAL_BLACKLIST_N_LETTER_WORDS
             \/ (Len(msg[t].word) = 3 /\ msg[t].word \notin GLOBAL_WHITELIST_3_LETTER_WORDS))
         => /\ pc'[t] = "idle"
            /\ last_outcome' = Outcome("SoftReject", "blacklisted")
            /\ UNCHANGED <<server_configs, db_member, used_words, accepted, mistakes>>]_vars

\* A word was soft-rejected as blacklisted while the server's own blacklist was empty.
C10_Witness ==
    /\ last_outcome = Outcome("SoftReject", "blacklisted")
    /\ blacklist = {}


\* C11: a word on the server's whitelist is never soft-rejected as blacklisted
\* when it passes the validity gate; no lookup is started for it (the message
\* carries no future into the decision); and the message's decision is never a
\* 'word does not exist' Mistake nor a lookup Error.
C11_WhitelistShortCircuits ==
    [][\A t \in Tasks :
        /\ (pc[t] = "gate" /\ pc'[t] # "gate" /\ msg[t].word \in whitelist)
             => /\ ~(pc'[t] = "idle" /\ last_outcome'.reason = "blacklisted")
                /\ pc'[t] = "decide" => ~msg'[t].future
        /\ (pc[t] = "decide" /\ pc'[t] = "idle" /\ msg[t].word \in whitelist)
             => last_outcome'.reason \notin {"not_exist", "lookup"}]_vars

\* A whitelisted word that is on a global blacklist is in the chain.
C11_Witness ==
    /\ w_xx \in whitelist
    /\ last_outcome.kind = "Accepted"
    /\ \E game_mode \in GameModes :
          server_configs.game_state[game_mode].current_word = w_xx


\* C12: the step that ends a message with a lookup Error changes nothing of
\* the turn: the chain state of both game modes and the failed member, the
\* used words, the word cache and every member row are the same after it, in
\* memory and in the store.
C12_LookupErrorNotCounted ==
    [][\A t \in Tasks :
        (pc[t] = "decide" /\ pc'[t] = "idle" /\ last_outcome'.kind = "Error")
            => /\ server_configs' = server_configs
               /\ db_server_config' = db_server_config
               /\ used_words' = used_words
               /\ word_cache' = word_cache
               /\ db_member' = db_member]_vars

\* A lookup failed on a running chain.
C12_Witness ==
    /\ last_outcome = Outcome("Error", "lookup")
    /\ \E game_mode \in GameModes : server_configs.game_state[game_mode].current_count > 0
    /\ used_words # {}


\* C13: a step that ends a message as a SoftReject (single letter, blacklisted
\* word, used word) or drops it for its characters leaves the ServerConfig (the
\* chain state of every game mode, the high scores, the failed member), the
\* used words and every member row unchanged, in memory and in the store.
C13_SoftRejectFrame ==
    [][(/\ \/ \E t \in Tasks : pc[t] = "gate" /\ pc'[t] = "idle"
           \/ started' = started + 1 /\ pc' = pc
        /\ \/ last_outcome'.kind = "SoftReject"
           \/ last_outcome' = Outcome("Ignored", "characters"))
            => /\ server_configs' = server_configs
               /\ db_server_config' = db_server_config
               /\ used_words' = used_words
               /\ db_member' = db_member]_vars

\* A used word was rejected on a running chain.
C13_Witness ==
    /\ last_outcome = Outcome("SoftReject", "repeated")
    /\ used_words # {}
    /\ \E game_mode \in GameModes : server_configs.game_state[game_mode].current_count > 0
    /\ \E m \in Members : db_member[m].present /\ db_member[m].correct > 0


\* C14: a message received while its author is in BannedMember is dropped by
\* the ignore checks: no task takes it up, so it can reach neither the member
\* upsert nor a decision.
C14_BannedMemberIgnored ==
    [][\A t \in Tasks :
        (pc[t] = "idle" /\ pc'[t] = "member") => msg'[t].author \notin banned_member]_vars

\* C15: the word cache gains a word only in the step that decides a message
\* for which a lookup was made (and answered 'exists'), the word is then on no
\* blacklist, and no step removes a cached word.
C15_CacheOnlyConfirmed ==
    [][/\ word_cache \subseteq word_cache'
       /\ word_cache' # word_cache
            => \E t \in Tasks :
                 /\ pc[t] = "decide"
                 /\ msg[t].future
                 /\ word_cache' = word_cache \cup {<<msg[t].word, "en">>}
                 /\ msg[t].word \notin blacklist
                 /\ msg[t].word \notin GLOBAL_BLACKLIST_2_LETTER_WORDS
                                        \cup GLOBAL_BLACKLIST_N_LETTER_WORDS]_vars


C17_NotExistOnlyIfAll ==
    [][\A t \in Tasks :
        (pc[t] = "check_word_lookup" /\ pc'[t] = "idle")
            => LET results == msg[t].arg.results
                   answers == {results[i] : i \in 1..Len(results)}
               IN  /\ last_outcome' = Outcome("CheckWord", "not_valid")
                        => answers = {API_RESPONSE_WORD_DOESNT_EXIST}
                   /\ (API_RESPONSE_WORD_EXISTS \notin answers
                          /\ API_RESPONSE_ERROR \in answers)
                        => last_outcome' = Outcome("CheckWord", "error")]_vars


C20_MistakeResyncsRoles ==
    [][\A t \in Tasks :
        (pc[t] = "decide" /\ pc'[t] = "idle" /\ mistakes' # mistakes)
            => LET author == msg[t].author
                   qualifies(row) ==
                       /\ row.present
                       /\ row.karma > 50 * Scale
                       /\ row.correct + row.wrong > 0
                       /\ 100 * row.correct > 99 * (row.correct + row.wrong)
               IN  /\ (/\ server_reliable_roles # None
                        /\ qualifies(db_member[author])
                        /\ ~qualifies(db_member'[author]))
                        => author \notin reliable_role_members'
                   /\ server_failed_roles # None
                        => failed_role_members' \subseteq {author}]_vars


\* C21: an accepted word of the failed member advances
\* correct_inputs_by_failed_member by one, or, on reaching the redemption
\* threshold, clears failed_member_id, returns the counter to 0 and takes the
\* failed role from the member, whether or not a failed role is configured; an
\* accepted word of anybody else leaves counter and failed member alone; a
\* Mistake returns the counter to 0.
C21_Redemption ==
    [][\A t \in Tasks :
        (pc[t] = "decide" /\ pc'[t] = "idle")
            => LET author == msg[t].author
                   inputs == server_configs.correct_inputs_by_failed_member
               IN  /\ (accepted' # accepted /\ server_configs.failed_member_id = author)
                        => IF inputs + 1 >= 30
                           THEN /\ server_configs'.failed_member_id = None
                                /\ server_configs'.correct_inputs_by_failed_member = 0
                                /\ author \notin failed_role_members'
                           ELSE /\ server_configs'.correct_inputs_by_failed_member = inputs + 1
                                /\ server_configs'.failed_member_id = author
                   /\ (accepted' # accepted /\ server_configs.failed_member_id # author)
                        => /\ server_configs'.correct_inputs_by_failed_member = inputs
                           /\ server_configs'.failed_member_id
                                = server_configs.failed_member_id
                   /\ mistakes' # mistakes
                        => server_configs'.correct_inputs_by_failed_member = 0]_vars


\* C22: after clean_server for a server the bot is in, the server's config is
\* still there, in memory and in the store alike, with the chain state of every
\* game mode (channel, count, word, high score, last member) and the role and
\* failed-member fields at their defaults, and the server has no used word,
\* member, blacklist or whitelist row left.
C22_PurgeResets ==
    [][(commands' = commands + 1 /\ last_outcome' = Outcome("CleanServer", "removed"))
        => /\ \A game_mode \in GameModes :
                server_configs'.game_state[game_mode] = GameModeState
           /\ server_configs'.reliable_role_id = None
           /\ server_configs'.failed_role_id = None
           /\ server_configs'.failed_member_id = None
           /\ server_configs'.correct_inputs_by_failed_member = 0
           /\ db_server_config' = server_configs'
           /\ used_words' = {}
           /\ \A m \in Members : ~db_member'[m].present
           /\ blacklist' = {}
           /\ whitelist' = {}]_vars


\* C23: the lock is only ever held by a task inside its locked block, so no
\* task that holds it asks for it again; a held lock is eventually released;
\* and every message or command waiting for the lock is eventually finished.
C23_NoDeadlock ==
    /\ [](\A t \in Tasks : lock = t => pc[t] = "decide")
    /\ (lock # None) ~> (lock = None)
    /\ \A t \in Tasks : (pc[t] # "idle") ~> (pc[t] = "idle")

\* A message waits while the other task holds the lock.
C23_Witness ==
    /\ lock = "t1"
    /\ pc["t1"] = "decide"
    /\ pc["t2"] = "gate"


\* C24: every message that was taken up ends in one of the outcomes of
\* on_message (SoftReject, Mistake, lookup Error, Accepted, or Ignored); none
\* ends with an exception leaving the handler.
C24_NoFaultEscapes == last_outcome.kind # "Fault"

\* C27: whenever no task holds the lock, the in-memory ServerConfig equals the
\* persisted server_config row.
C27_MemoryEqualsStore == lock = None => server_configs = db_server_config


\* C25: for a word whose base karma is not positive, calculate_total_karma
\* gives the base karma with every history: the two members' histories,
\* whatever they hold, give the same result.
C25_LossIgnoresHistory ==
    \A word \in KarmaWords :
        calculate_base_karma(word) <= 0
            => /\ calculate_total_karma(word, server_histories["m1"])
                    = calculate_base_karma(word)
               /\ calculate_total_karma(word, server_histories["m1"])
                    = calculate_total_karma(word, server_histories["m2"])

\* The playing member's history holds words with the trailing letter of 'ax'
\* and differs from the other member's history.
C25_Witness ==
    /\ Len(server_histories["m1"]) = HISTORY_LENGTH
    /\ \A i \in 1..HISTORY_LENGTH : Last(server_histories["m1"][i]) = "x"
    /\ server_histories["m2"] = <<w_xa>>
    /\ last_outcome = Outcome("Karma", calculate_base_karma(w_ax))

\* C26: for a word whose base karma is positive, the total is the base karma,
\* a value above 0, when no history word shares its trailing letter (the empty
\* history included); of two histories the one with the larger weighted count
\* n = 2k/len gives the strictly smaller total; and appending a word with the
\* same trailing letter to a history that is not full strictly lowers the total.
C26_GainDecays ==
    [][\A word \in KarmaWords :
        calculate_base_karma(word) > 0
            => LET h1 == server_histories["m1"]
                   h2 == server_histories["m2"]
                   after == server_histories'["m1"]
                   k1 == WeightSum(h1, Last(word), 1)
                   k2 == WeightSum(h2, Last(word), 1)
               IN  /\ (\A i \in 1..Len(h1) : Last(h1[i]) # Last(word))
                        => /\ calculate_total_karma(word, h1) = calculate_base_karma(word)
                           /\ calculate_total_karma(word, h1) > 0
                   /\ (Len(h1) > 0 /\ Len(h2) > 0 /\ k1 * Len(h2) < k2 * Len(h1))
                        => calculate_total_karma(word, h2) < calculate_total_karma(word, h1)
                   /\ (/\ Len(h1) < HISTORY_LENGTH
                       /\ after # h1
                       /\ Last(after[Len(after)]) = Last(word))
                        => calculate_total_karma(word, after)
                             < calculate_total_karma(word, h1)]_vars

\* Three words ending in 'a' in a row: the third earned less than the base karma.
C26_Witness ==
    /\ server_histories["m1"] = <<w_xa, w_xa, w_xa>>
    /\ last_outcome.kind = "Karma"
    /\ last_outcome.reason < calculate_base_karma(w_xa)
    /\ last_outcome.reason = calculate_total_karma(w_xa, <<w_xa, w_xa>>)


\* C28: turn order and continuity are decided before the lookup's answer is
\* looked at. The step that decides a message sent by the mode's
\* last_member_id (SINGLE_PLAYER off) ends it as a Mistake for the wrong member;
\* otherwise, if the word does not begin with the trailing token of the mode's
\* current word, as a Mistake for the wrong letter; both whatever the lookup
\* answers. A Mistake counts once: one mistake of the message's mode, wrong +1,
\* score -1 and one karma penalty on the author's row, no other row touched.
C28_MistakeChecksFirst ==
    [][\A t \in Tasks :
        (pc[t] = "decide" /\ pc'[t] = "idle")
            => LET game_mode == msg[t].game_mode
                   member_id == msg[t].author
                   word == msg[t].word
                   gs == server_configs.game_state[game_mode]
                   w == TokenWidth(game_mode)
                   prev == gs.current_word
                   turn == ~SINGLE_PLAYER /\ gs.last_member_id = member_id
                   continuity ==
                       /\ prev # NoWord
                       /\ \/ Len(word) < w
                          \/ Len(prev) < w
                          \/ SubSeq(word, 1, w) # SubSeq(prev, Len(prev) - w + 1, Len(prev))
                   row == db_member[member_id]
               IN  /\ turn => last_outcome' = Outcome("Mistake", "wrong_member")
                   /\ (~turn /\ continuity)
                        => last_outcome' = Outcome("Mistake", "wrong_letter")
                   /\ last_outcome'.kind = "Mistake"
                        => /\ mistakes' = [mistakes EXCEPT ![game_mode] = @ + 1]
                           /\ row.present
                           /\ db_member' = [db_member EXCEPT ![member_id] =
                                  [row EXCEPT !.score = row.score - 1,
                                              !.wrong = row.wrong + 1,
                                              !.karma = Max(0, row.karma
                                                              - MISTAKE_PENALTY * Scale)]]]_vars

\* C29: the soft-reject checks come before the mistake checks. A message whose
\* word is blacklisted (and not whitelisted) or already used, sent by the
\* mode's last_member_id or not continuing the mode's current word, ends at
\* the gate as a SoftReject: no Mistake is counted and the chain (count, word,
\* last member, used words) and the member rows stay as they were.
C29_SoftRejectBeforeMistake ==
    [][\A t \in Tasks :
        LET game_mode == msg[t].game_mode
            word == msg[t].word
            gs == server_configs.game_state[game_mode]
        IN  (/\ pc[t] = "gate"
             /\ pc'[t] # "gate"
             /\ \/ word \in used_words
                \/ word \notin whitelist /\ is_word_blacklisted(word, TRUE)
             /\ \/ ~SINGLE_PLAYER /\ gs.last_member_id = msg[t].author
                \/ gs.current_word # NoWord /\ Head(word) # Last(gs.current_word))
                => /\ pc'[t] = "idle"
                   /\ last_outcome'.kind = "SoftReject"
                   /\ mistakes' = mistakes
                   /\ server_configs'.game_state = server_configs.game_state
                   /\ used_words' = used_words
                   /\ db_member' = db_member]_vars

\* Only m1 has played: its word was accepted and its repetition of that word,
\* out of turn, was soft-rejected with the chain still running.
C29_Witness ==
    /\ ~SINGLE_PLAYER
    /\ last_outcome = Outcome("SoftReject", "repeated")
    /\ db_member["m1"].present /\ ~db_member["m2"].present
    /\ db_member["m1"].correct = 1 /\ db_member["m1"].wrong = 0
    /\ \E game_mode \in GameModes :
          /\ server_configs.game_state[game_mode].last_member_id = "m1"
          /\ server_configs.game_state[game_mode].current_count = 1
          /\ mistakes[game_mode] = 0

\* C30: with SINGLE_PLAYER off, the step that accepts a word of a game mode
\* has an author other than the mode's last_member_id and makes that author
\* the last_member_id, and every other step, a Mistake included, leaves the
\* mode's last_member_id as it was: two consecutive Accepted words of a mode
\* never have the same author, whatever lies between them.
C30_AuthorsAlternate ==
    [][~SINGLE_PLAYER =>
        \A game_mode \in GameModes :
          LET before == server_configs.game_state[game_mode].last_member_id
              after == server_configs'.game_state[game_mode].last_member_id
          IN  IF accepted'[game_mode] # accepted[game_mode]
              THEN /\ after # before
                   /\ \E t \in Tasks : /\ pc[t] = "decide" /\ pc'[t] = "idle"
                                        /\ msg[t].game_mode = game_mode
                                        /\ msg[t].author = after
              ELSE after = before]_vars

\* Two words of a mode were accepted with a Mistake between them.
C30_Witness ==
    /\ ~SINGLE_PLAYER
    /\ last_outcome.kind = "Accepted"
    /\ \E game_mode \in GameModes :
          /\ accepted[game_mode] = 2
          /\ mistakes[game_mode] = 1
          /\ server_configs.game_state[game_mode].current_count = 1
    /\ server_configs.failed_member_id # None


\* ------------------------------------------------------------ the lookup
\* str.lower() over the letters of the lookup scenarios.
lower_char(c) == IF c = "A" THEN "a" ELSE IF c = "X" THEN "x" ELSE c
lower(word) == [i \in 1..Len(word) |-> lower_char(word[i])]

\* Titles the search may return first.
w_Ax == <<"A", "x">>
LookupWords == {w_ax, w_xa}
LookupTitles == {w_ax, w_xa, w_Ax}
LookupStatusCodes == {200, 304, 404, 500}

\* What response.json() gives: no JSON at all, a JSON object, or a JSON array
\* of 0, 1 or 2 elements - the queried word and the list of titles found.
NoBody == [json |-> FALSE, array |-> FALSE, data |-> <<>>]
LookupBodies ==
    {NoBody, [json |-> TRUE, array |-> FALSE, data |-> <<>>]}
    \cup {[json |-> TRUE, array |-> TRUE, data |-> data] :
            data \in {<<>>} \cup {<<word>> : word \in LookupWords}
                    \cup {<<word, titles>> :
                            word \in LookupWords,
                            titles \in {<<>>} \cup {<<title>> : title \in LookupTitles}
                                      \cup {<<w_xa, w_ax>>}}}

\* What future.result(timeout=5) does: it raises TimeoutError, it raises the
\* transport's exception, or it returns a response.
LookupFutures ==
    {[result |-> r, status_code |-> 0, body |-> NoBody] : r \in {"timeout", "transport"}}
    \cup {[result |-> "response", status_code |-> status_code, body |-> body] :
            status_code \in LookupStatusCodes, body \in LookupBodies}

\* get_query_response, lines 519-562. IndexError (data[0], data[1] or
\* data[1][0] out of range) is answered with WORD_DOESNT_EXIST, every other
\* exception with ERROR.
get_query_response(future) ==
    IF future.result = "timeout" THEN API_RESPONSE_ERROR
    ELSE IF future.result = "transport" THEN API_RESPONSE_ERROR
    ELSE IF future.status_code >= 400 THEN API_RESPONSE_ERROR
    ELSE IF ~future.body.json THEN API_RESPONSE_ERROR
    ELSE IF ~future.body.array THEN API_RESPONSE_ERROR
    ELSE IF Len(future.body.data) < 1 THEN API_RESPONSE_WORD_DOESNT_EXIST
    ELSE IF Len(future.body.data) < 2 THEN API_RESPONSE_WORD_DOESNT_EXIST
    ELSE IF Len(future.body.data[2]) < 1 THEN API_RESPONSE_WORD_DOESNT_EXIST
    ELSE IF lower(future.body.data[2][1]) = lower(future.body.data[1])
         THEN API_RESPONSE_WORD_EXISTS
         ELSE API_RESPONSE_WORD_DOESNT_EXIST

\* start_api_query, lines 486-515: the query runs in the background.
LookupStart(future) ==
    LET t == FreeTask
    IN  /\ SomeTaskIdle
        /\ pc' = [pc EXCEPT ![t] = "lookup"]
        /\ msg' = [msg EXCEPT ![t].arg = future]
        /\ UNCHANGED <<guild_members, server_reliable_roles, reliable_role_members,
                       banned_member, lock, server_configs, db_server_config, db_member,
                       used_words, word_cache, blacklist, whitelist, server_failed_roles,
                       failed_role_members, server_histories, SINGLE_PLAYER, started,
                       commands, accepted, mistakes, last_outcome>>

\* The caller reads the classification (main.py:371).
LookupFinish(t) ==
    /\ pc[t] = "lookup"
    /\ Finish(t, "Lookup", get_query_response(msg[t].arg))
    /\ UNCHANGED <<guild_members, server_reliable_roles, reliable_role_members,
                   banned_member, lock, server_configs, db_server_config, db_member,
                   used_words, word_cache, blacklist, whitelist, server_failed_roles,
                   failed_role_members, server_histories, SINGLE_PLAYER, started,
                   commands, accepted, mistakes>>

NextLookup ==
    \/ \E future \in LookupFutures : LookupStart(future)
    \/ \E t \in Tasks : LookupFinish(t)

SpecLookup == Init /\ [][NextLookup]_vars

\* C31: the classification of a lookup follows the tri-state rule. A timeout,
\* a transport failure, a status >= 400 and a malformed body (no JSON, no
\* array, or an array without the word and the list of titles) give ERROR;
\* WORD_EXISTS is given only for a status < 400 whose first title equals the
\* word without regard to case; WORD_DOESNT_EXIST only for a well-formed
\* response without such a first title.
C31_TriState ==
    [][\A t \in Tasks :
        (pc[t] = "lookup" /\ pc'[t] = "idle")
            => LET future == msg[t].arg
                   data == future.body.data
                   well_formed == /\ future.result = "response"
                                  /\ future.body.json
                                  /\ future.body.array
                                  /\ Len(data) = 2
                   matching == /\ well_formed
                               /\ Len(data[2]) >= 1
                               /\ lower(data[2][1]) = lower(data[1])
                   code == last_outcome'.reason
               IN  /\ code \in API_RESPONSES
                   /\ (~well_formed \/ future.status_code >= 400)
                        => code = API_RESPONSE_ERROR
                   /\ code = API_RESPONSE_WORD_EXISTS
                        => future.status_code < 400 /\ matching
                   /\ code = API_RESPONSE_WORD_DOESNT_EXIST
                        => future.status_code < 400 /\ well_formed /\ ~matching]_vars


\* C32: in the repetition count each history word with the trailing letter of
\* the current word contributes 2 * (len - i) / len, and the weights decay
\* with age: of two words of a history the one accepted later (appended later,
\* so at the higher position) has the higher weight, the most recent the
\* highest and the oldest the lowest. The weight of a position is what its
\* word adds to the count, in units of 2 / len.
C32_RecentWeighsMost ==
    LET last_words == server_histories["m1"]
        weight(j) == WeightSum(last_words, Last(last_words[j]), j)
                        - WeightSum(last_words, Last(last_words[j]), j + 1)
    IN  \A older \in 1..Len(last_words), newer \in 1..Len(last_words) :
            older < newer => weight(older) < weight(newer)


\* C33: in every state high_score >= current_count for each game mode, in
\* memory and in the store; and a step of message processing never lowers a
\* mode's high_score and changes it only when it accepts a word whose new
\* current_count is above it, the high score becoming that count.
C33_HighScore ==
    /\ [](\A game_mode \in GameModes :
            /\ server_configs.game_state[game_mode].high_score
                 >= server_configs.game_state[game_mode].current_count
            /\ db_server_config.game_state[game_mode].high_score
                 >= db_server_config.game_state[game_mode].current_count)
    /\ [][\A game_mode \in GameModes :
            LET before == server_configs.game_state[game_mode]
                after == server_configs'.game_state[game_mode]
            IN  /\ after.high_score >= before.high_score
                /\ after.high_score # before.high_score
                     => /\ accepted'[game_mode] = accepted[game_mode] + 1
                        /\ last_outcome'.kind = "Accepted"
                        /\ after.current_count = before.current_count + 1
                        /\ after.current_count > before.high_score
                        /\ after.high_score = after.current_count]_vars

\* A word was accepted after a Mistake without exceeding the high score the
\* broken chain had set: the Mistake kept the high score, the turn did too.
C33_Witness ==
    /\ last_outcome.kind = "Accepted"
    /\ \E game_mode \in GameModes :
          /\ accepted[game_mode] = 2
          /\ mistakes[game_mode] = 1
          /\ server_configs.game_state[game_mode].current_count = 1
          /\ server_configs.game_state[game_mode].high_score = 1
          /\ db_server_config.game_state[game_mode].high_score = 1


\* C34: the high-score celebration is one-shot per chain. reaction_emoji
\* celebrates exactly when it sets used_high_score_emoji, so: a step that
\* accepts a word of a mode whose flag is false and whose new current_count
\* equals the high score sets the flag; the flag is set by no other step; once
\* set it stays set, so that no later turn of the chain celebrates, until a
\* Mistake of that mode, and after every Mistake of the mode it is false.
C34_OneCelebrationPerChain ==
    [][\A game_mode \in GameModes :
        LET before == server_configs.game_state[game_mode]
            after == server_configs'.game_state[game_mode]
            turn == accepted'[game_mode] = accepted[game_mode] + 1
            mistake == mistakes'[game_mode] = mistakes[game_mode] + 1
        IN  /\ (turn /\ ~before.used_high_score_emoji
                      /\ after.current_count = after.high_score)
                 => after.used_high_score_emoji
            /\ (~before.used_high_score_emoji /\ after.used_high_score_emoji)
                 => turn /\ after.current_count = after.high_score
            /\ (before.used_high_score_emoji /\ ~after.used_high_score_emoji) => mistake
            /\ mistake => ~after.used_high_score_emoji]_vars

\* The second chain of a mode has celebrated as well: its first word tied the
\* high score of the chain that a Mistake broke.
C34_Witness ==
    /\ last_outcome.kind = "Accepted"
    /\ \E game_mode \in GameModes :
          /\ accepted[game_mode] = 2
          /\ mistakes[game_mode] = 1
          /\ server_configs.game_state[game_mode].current_count = 1
          /\ server_configs.game_state[game_mode].used_high_score_emoji
          /\ db_server_config.game_state[game_mode].used_high_score_emoji


\* C35: a turn in one game mode, Accepted or Mistake, leaves the other mode
\* untouched: its GameModeState is unchanged; its used words are kept, so the
\* current word of its running chain is still a used word after the turn;
\* and a word is rejected as already used in a mode only if that mode's chain
\* is running, a mode whose count is 0 having no used word of its own.
C35_ModesIndependent ==
    [][\A game_mode \in GameModes, other \in GameModes :
        game_mode # other
            => /\ (accepted'[game_mode] # accepted[game_mode]
                        \/ mistakes'[game_mode] # mistakes[game_mode])
                    => /\ server_configs'.game_state[other] = server_configs.game_state[other]
                       /\ (/\ server_configs.game_state[other].current_count > 0
                           /\ server_configs.game_state[other].current_word \in used_words)
                            => server_configs.game_state[other].current_word \in used_words'
               /\ \A t \in Tasks :
                    (/\ pc[t] = "gate" /\ pc'[t] = "idle"
                     /\ msg[t].game_mode = game_mode
                     /\ last_outcome' = Outcome("SoftReject", "repeated"))
                        => server_configs.game_state[game_mode].current_count > 0]_vars


C37_ScoreIsCorrectMinusWrong ==
    /\ [](\A m \in Members :
            /\ db_member[m].score = db_member[m].correct - db_member[m].wrong
            /\ db_member[m].correct >= 0
            /\ db_member[m].wrong >= 0)
    /\ [][\A m \in Members :
            LET before == db_member[m]
                after == db_member'[m]
            IN  /\ (~before.present /\ after.present)
                     => after.score = 0 /\ after.correct = 0 /\ after.wrong = 0
                /\ (before.present /\ after.present)
                     => \/ /\ after.score = before.score
                            /\ after.correct = before.correct
                            /\ after.wrong = before.wrong
                        \/ /\ last_outcome'.kind = "Accepted"
                            /\ after.score = before.score + 1
                            /\ after.correct = before.correct + 1
                            /\ after.wrong = before.wrong
                        \/ /\ last_outcome'.kind = "Mistake"
                            /\ after.score = before.score - 1
                            /\ after.correct = before.correct
                            /\ after.wrong = before.wrong + 1]_vars

\* A member has one accepted word and one mistake: score 0.
C37_Witness ==
    \E m \in Members :
        /\ db_member[m].present
        /\ db_member[m].correct = 1
        /\ db_member[m].wrong = 1
        /\ db_member[m].score = 0


\* C38: when a message is decided as Accepted or as a Mistake, the author's
\* member row exists and the turn is recorded in it: the author's correct
\* (Accepted) or wrong (Mistake) count goes up by one and no other member's
\* counts change - also when a purge ran after the row was created.
C38_TurnIsRecorded ==
    [][\A t \in Tasks :
        (/\ pc[t] = "decide" /\ pc'[t] = "idle"
         /\ last_outcome'.kind \in {"Accepted", "Mistake"})
            => LET member_id == msg[t].author
               IN  /\ db_member[member_id].present
                   /\ db_member'[member_id].correct + db_member'[member_id].wrong
                        = db_member[member_id].correct + db_member[member_id].wrong + 1
                   /\ \A m \in Members \ {member_id} : db_member'[m] = db_member[m]]_vars


\* ------------------------------------------- the failed-member window
\* remove_failed_role, main.py:1018-1026: the three failed fields are cleared
\* in memory before sync_to_db requests the lock.
RemoveFailedRoleWrite ==
    LET t == FreeTask
    IN  /\ commands < MaxCommands
        /\ SomeTaskIdle
        /\ commands' = commands + 1
        /\ server_configs' = [server_configs EXCEPT !.failed_role_id = None,
                                                    !.failed_member_id = None,
                                                    !.correct_inputs_by_failed_member = 0]
        /\ pc' = [pc EXCEPT ![t] = "remove_failed_role_sync"]
        /\ UNCHANGED <<guild_members, server_reliable_roles, reliable_role_members,
                       banned_member, lock, msg, db_server_config, db_member, used_words,
                       word_cache, blacklist, whitelist, server_failed_roles,
                       failed_role_members, server_histories, SINGLE_PLAYER, started,
                       accepted, mistakes, last_outcome>>

\* remove_failed_role, main.py:1026-1035: sync_to_db writes the row and commits;
\* then the role is taken from its holders and forgotten.
RemoveFailedRoleSync(t) ==
    /\ pc[t] = "remove_failed_role_sync"
    /\ LockFree
    /\ db_server_config' = server_configs
    /\ failed_role_members' = {}
    /\ server_failed_roles' = None
    /\ Finish(t, "RemoveFailedRole", "removed")
    /\ UNCHANGED <<guild_members, server_reliable_roles, reliable_role_members,
                   banned_member, lock, server_configs, db_member, used_words, word_cache,
                   blacklist, whitelist, server_histories, SINGLE_PLAYER, started,
                   commands, accepted, mistakes>>

\* Play in a server with the failed role configured, and the commands that
\* end a failed member's window.
NextReset ==
    \/ \E m \in RoleMessages : MsgStart(m[1], m[2], m[3])
    \/ \E t \in Tasks : MsgMember(t)
    \/ \E t \in Tasks : MsgGate(t)
    \/ \E t \in Tasks, result \in API_RESPONSES : MsgDecide(t, result)
    \/ ResetStats
    \/ \E t \in Tasks : ResetStatsLocked(t)
    \/ RemoveFailedRoleWrite
    \/ \E t \in Tasks : RemoveFailedRoleSync(t)

SpecReset == InitRoles /\ [][NextReset]_vars

OtherServerWords == {w_ax, w_xx}

\* A turn of on_message in another server, reduced to what the two servers
\* share: the lock and the word cache. The word passes that server's other
\* checks; it is on that server's whitelist or not; without a whitelist entry
\* or a cache row the lookup answers with result (main.py:314-323, 370-400),
\* and an accepted word goes to the cache (main.py:444).
OtherServerTurn(word, word_whitelisted, result) ==
    LET future == ~(word_whitelisted \/ is_word_in_cache(word))
    IN  /\ LockFree
        /\ IF future /\ result = API_RESPONSE_WORD_DOESNT_EXIST
           THEN last_outcome' = Outcome("OtherServer", "not_exist") /\ UNCHANGED word_cache
           ELSE IF future /\ result = API_RESPONSE_ERROR
           THEN last_outcome' = Outcome("OtherServer", "lookup") /\ UNCHANGED word_cache
           ELSE /\ word_cache' = add_to_cache(word_cache, word)
                /\ last_outcome' = Outcome("OtherServer",
                                           IF future THEN "confirmed"
                                           ELSE IF word_whitelisted THEN "whitelisted"
                                           ELSE "cached")
        /\ UNCHANGED <<guild_members, server_reliable_roles, reliable_role_members,
                       banned_member, lock, pc, msg, server_configs, db_server_config,
                       db_member, used_words, blacklist, whitelist, server_failed_roles,
                       failed_role_members, server_histories, SINGLE_PLAYER, started,
                       commands, accepted, mistakes>>

NextIsolation ==
    \/ \E m \in LiveMessages : MsgStart(m[1], m[2], m[3])
    \/ \E t \in Tasks : MsgMember(t)
    \/ \E t \in Tasks : MsgGate(t)
    \/ \E t \in Tasks, result \in API_RESPONSES : MsgDecide(t, result)
    \/ \E word \in OtherServerWords, word_whitelisted \in BOOLEAN, result \in API_RESPONSES :
          OtherServerTurn(word, word_whitelisted, result)

SpecIsolation == Init /\ [][NextIsolation]_vars

\* C40: this server does not see the other server's whitelist. A turn of the
\* other server that is accepted on the strength of its whitelist alone, with
\* no lookup, leaves the cache checks of this server as they were: no word
\* becomes a cache hit here, so the outcome of the messages here is the same
\* as in the run where the other server has no such whitelist entry.
C40_WhitelistStaysLocal ==
    [][last_outcome' = Outcome("OtherServer", "whitelisted")
        => \A m \in LiveMessages : is_word_in_cache(m[2])' = is_word_in_cache(m[2])]_vars

====
